---- MODULE Spec2Model ----
(***************************************************************************)
(* A model of the Airthings exporter (src/index.js, lines 1-351): the      *)
(* OAuth2 token lifecycle, the time-windowed samples cache and the scrape   *)
(* pipeline getMetrics -> login -> refreshMetrics -> render.                *)
(*                                                                         *)
(* JavaScript runs each handler to its next network await without          *)
(* interleaving, so one action is one such run: the code between two        *)
(* network suspensions.  File reads and writes are synchronous and belong   *)
(* to the run that makes them.                                              *)
(***************************************************************************)
EXTENDS Integers, Sequences, FiniteSets, TLC

\* ------------------------------------------------------------------ bounds
MaxTime == 2        \* the clock runs over 0..MaxTime
TTL == 1            \* cacheLatestSamplesForMs, in clock units
TokenLife == 2      \* lifetime the auth endpoint grants a new token
NScrapes == 2       \* scrape requests (inbound data events), in order of arrival

Scrapes == 1..NScrapes

\* ------------------------------------------------------------------ values
\* Every JSON / JavaScript value is a tagged record so that a Date, its ISO
\* string and a number stay distinguishable.
Num(n) == [t |-> "num", v |-> n]
Str(n) == [t |-> "str", v |-> n]
DateV(n) == [t |-> "date", v |-> n]
Iso(n) == [t |-> "iso", v |-> n]
InvalidDate == [t |-> "baddate", v |-> 0]
Null == [t |-> "null", v |-> 0]

\* JSON.stringify followed by JSON.parse, on one value: a Date becomes its ISO
\* string, an invalid Date becomes null, everything else is kept.
JsonValue(x) ==
  CASE x.t = "date" -> Iso(x.v)
    [] x.t = "baddate" -> Null
    [] OTHER -> x

\* ---------------------------------------------- insertion-ordered objects
\* A JavaScript object is a sequence of [k, v] pairs in insertion order.
MapHas(m, k) == \E i \in 1..Len(m) : m[i].k = k
MapGet(m, k) == m[CHOOSE i \in 1..Len(m) : m[i].k = k].v
MapPut(m, k, v) ==
  IF MapHas(m, k)
  THEN [i \in 1..Len(m) |-> IF m[i].k = k THEN [k |-> k, v |-> v] ELSE m[i]]
  ELSE Append(m, [k |-> k, v |-> v])

\* ------------------------------------------------------ upstream payloads
devA == [id |-> "A", deviceType |-> "WAVE_PLUS", location |-> "Kitchen",
         segment |-> "Home", started |-> Iso(1)]
devA2 == [id |-> "A", deviceType |-> "WAVE_PLUS", location |-> "Cellar",
          segment |-> "Home", started |-> Iso(2)]
devB == [id |-> "B", deviceType |-> "WAVE_MINI", location |-> "Attic",
         segment |-> "Office", started |-> Iso(1)]
devH == [id |-> "H", deviceType |-> "HUB", location |-> "Hall",
         segment |-> "Home", started |-> Iso(1)]

\* The bodies GET /v1/devices may answer with.
DeviceLists == { <<>>, <<devH, devA2, devB>>, <<devB, devH>> }

\* The data objects GET /v1/devices/{id}/latest-samples may answer with.
dataP == << [k |-> "radon", v |-> Num(4)], [k |-> "temp", v |-> Num(21)],
            [k |-> "time", v |-> Str(17)] >>
dataQ == << [k |-> "relayDeviceType", v |-> Str(0)], [k |-> "radon", v |-> Num(5)] >>
SampleData == {dataP, dataQ}

\* ------------------------------------------------------------------ files
\* A file is absent, or present; a present file is readable (it can be read and
\* its content is JSON) or not (EACCES, or a content JSON.parse rejects).
NoTokenFile == [present |-> FALSE, readable |-> FALSE, exp |-> 0]
NoSamplesFile ==
  [present |-> FALSE, readable |-> FALSE, hasTs |-> FALSE, persistedAt |-> 0,
   samples |-> <<>>]
BadTokenFile == [NoTokenFile EXCEPT !.present = TRUE]
BadSamplesFile == [NoSamplesFile EXCEPT !.present = TRUE]
WriteOutcomes == {"ok", "denied"}

\* The persisted token: the provider's payload, reduced to its expiry instant.
NoToken == [exp |-> 0]

\* ------------------------------------------------------- token and stores
\* A variant: every token counts as expired, so every check exchanges.
expiredAlways(token, t) == TRUE

\* A variant: no token ever counts as expired, so no check exchanges.
expiredNever(token, t) == FALSE

\* accessToken.expired() (simple-oauth2), as ensureFreshToken asks it at line
\* 153: the expiry instant is not after now.
expired(token, t) == token.exp <= t

\* fetchNewToken's result on success: a token valid for TokenLife from t.
fetchNewToken(t) == [exp |-> t + TokenLife]

\* persistAccessToken: a full overwrite of the token file; a failing write
\* (the file cannot be opened for writing) is logged and swallowed.
persistAccessToken(tf, token, wr) ==
  IF wr = "ok" THEN [present |-> TRUE, readable |-> TRUE, exp |-> token.exp] ELSE tf

\* A variant: the content is handed on although it could not be read or parsed.
getPersistedUnchecked(f, none) == f

\* getPersistedAccesstoken and getPersistedLatestSamples: readFileSync and
\* JSON.parse in one try; whatever fails there, the result is null (none).
getPersisted(f, none) == IF f.present /\ f.readable THEN f ELSE none
getPersistedAccesstoken(tf) == getPersisted(tf, NoTokenFile)
getPersistedLatestSamples(sf) == getPersisted(sf, NoSamplesFile)

\* JSON.stringify / JSON.parse of a cached detector and of the cache.
JsonSamples(samples) ==
  [j \in 1..Len(samples) |-> [k |-> samples[j].k, v |-> JsonValue(samples[j].v)]]
JsonEntry(e) ==
  [e EXCEPT !.started = JsonValue(@), !.latestSamples = JsonSamples(@)]
JsonCache(cache) ==
  [i \in 1..Len(cache) |-> [k |-> cache[i].k, v |-> JsonEntry(cache[i].v)]]

\* A variant: the write adds the entries to those the file holds instead of
\* replacing the file.
RECURSIVE overlay(_, _, _)
overlay(base, entries, n) ==
  IF n = 0 THEN base
  ELSE MapPut(overlay(base, entries, n - 1), entries[n].k, entries[n].v)
persistLatestSamplesOnto(sf, latestSamples, t, wr) ==
  IF wr = "ok"
  THEN [present |-> TRUE, readable |-> TRUE, hasTs |-> TRUE, persistedAt |-> t,
        samples |-> overlay(sf.samples, JsonCache(latestSamples), Len(latestSamples))]
  ELSE sf

\* persistLatestSamples: {persistedAt: new Date(), samples} overwrites the file.
persistLatestSamples(sf, latestSamples, t, wr) ==
  IF wr = "ok"
  THEN [present |-> TRUE, readable |-> TRUE, hasTs |-> TRUE, persistedAt |-> t,
        samples |-> JsonCache(latestSamples)]
  ELSE sf

\* --------------------------------------------------------------- refresher
\* A variant: the filter lets every device through.
deviceIsNotAHubAny(device) == TRUE

deviceIsNotAHub(device) == device.deviceType # "HUB"

\* decorateDevice: segment.started becomes a Date.
decorateDevice(device) == [device EXCEPT !.started = DateV(@.v)]

\* devices.filter(deviceIsNotAHub).reduce(...): the detectors keyed by id, over
\* the first n devices.
RECURSIVE detectorsUpTo(_, _)
detectorsUpTo(devices, n) ==
  IF n = 0 THEN <<>>
  ELSE LET acc == detectorsUpTo(devices, n - 1)
           d == devices[n]
       IN IF deviceIsNotAHub(d) THEN MapPut(acc, d.id, decorateDevice(d)) ELSE acc
detectorsOf(devices) == detectorsUpTo(devices, Len(devices))

\* { ...devicePayload.data, time: new Date(parseInt(data.time, 10) * 1000) }
parseTime(data) ==
  IF MapHas(data, "time") /\ MapGet(data, "time").t \in {"num", "str"}
  THEN DateV(MapGet(data, "time").v)
  ELSE InvalidDate
samplesOf(data) == MapPut(data, "time", parseTime(data))

\* { ...detectors[id], latestSamples: samples }
entryOf(detector, samples) ==
  [id |-> detector.id, deviceType |-> detector.deviceType,
   location |-> detector.location, segment |-> detector.segment,
   started |-> detector.started, latestSamples |-> samples]

\* One per-detector fetch result as Promise.all collects it: [id, samples] on
\* success, [null, null] when getData returned null.
Pending == [kind |-> "pending", samples |-> <<>>]
NullResult == [kind |-> "null", samples |-> <<>>]
Rejected(kind) == [kind |-> kind, samples |-> <<>>]
OkResult(data) == [kind |-> "ok", samples |-> samplesOf(data)]

\* detectorSamples.filter(non-null).forEach(latestSamples[id] = ...), over the
\* first n results.
RECURSIVE mergeUpTo(_, _, _, _)
mergeUpTo(latestSamples, detectors, res, n) ==
  IF n = 0 THEN latestSamples
  ELSE LET acc == mergeUpTo(latestSamples, detectors, res, n - 1)
       IN IF res[n].kind = "ok"
          THEN MapPut(acc, detectors[n].k, entryOf(detectors[n].v, res[n].samples))
          ELSE acc

\* A variant: the merge starts from an empty object instead of the copy of
\* the prior cache.
mergeFromEmpty(latestSamples, detectors, res) ==
  mergeUpTo(<<>>, detectors, res, Len(res))

\* refreshMetrics lines 202 and 239-243: the copy of the prior cache with every
\* fetched detector written over it.
merge(latestSamples, detectors, res) ==
  mergeUpTo(latestSamples, detectors, res, Len(res))

\* ---------------------------------------------------------------- renderer
\* A variant: only time is reserved.
notMetricsTimeOnly == {"time"}

notMetrics == {"time", "relayDeviceType"}

metricToString(detector, pair) ==
  [metric |-> pair.k, device_id |-> detector.id,
   device_location |-> detector.location, device_segment |-> detector.segment,
   value |-> pair.v]

\* Object.entries(detector.latestSamples).filter(...).map(metricToString(detector))
RECURSIVE metricLines(_, _)
metricLines(detector, n) ==
  IF n = 0 THEN <<>>
  ELSE LET rest == metricLines(detector, n - 1)
           pair == detector.latestSamples[n]
       IN IF pair.k \notin notMetrics
          THEN Append(rest, metricToString(detector, pair))
          ELSE rest

\* Object.entries(cachedLatestSamples).reduce(...): the lines of the first n
\* cached detectors.
RECURSIVE renderUpTo(_, _)
renderUpTo(cache, n) ==
  IF n = 0 THEN <<>>
  ELSE renderUpTo(cache, n - 1)
         \o metricLines(cache[n].v, Len(cache[n].v.latestSamples))
render(cache) == renderUpTo(cache, Len(cache))

\* ------------------------------------------------------------ cache window
\* getMetrics, lines 260-277: the cache-hit decision and the samples handed on.
useCacheFor(doc, t) ==
  /\ doc.present
  /\ doc.hasTs
  /\ LET latestSamplesCacheAge == t - doc.persistedAt
     IN latestSamplesCacheAge # 0 /\ latestSamplesCacheAge <= TTL
cachedFor(doc) == IF doc.present /\ doc.hasTs THEN doc.samples ELSE <<>>

\* -------------------------------------------------------------- connection
\* One accepted connection as handleConnection and its handlers see it:
\*   st     none (not accepted yet), open, ended (connection.end() was called:
\*          the writable side is finished, data may still arrive), closed (the
\*          'close' event was delivered)
\*   timer  connectionTimeout: none, armed, cleared, firedIdle (it fired before
\*          any data event), firedBusy (it fired after a data event)
\*   data   data events delivered, each of which called getMetrics
\*   resp   responses written while the connection was open
\*   late   a response was written after the connection was ended or closed
NoConn == [st |-> "none", timer |-> "none", data |-> 0, resp |-> 0, late |-> FALSE]

\* handleConnection: the idle timer is armed and the handlers are attached.
handleConnection(cn) == [cn EXCEPT !.st = "open", !.timer = "armed"]

\* A variant: the data handler leaves the idle timer running.
onConnectionDataNoClear(cn) == [cn EXCEPT !.data = @ + 1]

\* onConnectionData, lines 305-307: clearTimeout, then getMetrics is called.
onConnectionData(cn) ==
  [cn EXCEPT !.timer = IF @ = "armed" THEN "cleared" ELSE @, !.data = @ + 1]

\* The timer callback, lines 325-328: connection.end().
idleTimeout(cn) ==
  [cn EXCEPT !.timer = IF cn.data = 0 THEN "firedIdle" ELSE "firedBusy",
             !.st = IF @ = "open" THEN "ended" ELSE @]

\* onConnectionClose: clearTimeout.
onConnectionClose(cn) ==
  [cn EXCEPT !.st = "closed", !.timer = IF @ = "armed" THEN "cleared" ELSE @]

\* The .then callback's writes and connection.end(), lines 308-312: on a
\* connection already ended or closed the writes fail (an 'error' event, which
\* onConnectionError logs).
connectionWriteEnd(cn) ==
  IF cn.st = "open" THEN [cn EXCEPT !.resp = @ + 1, !.st = "ended"]
  ELSE [cn EXCEPT !.late = TRUE]

\* getMetrics(client).then(...) has no rejection handler, so a rejected
\* getMetrics is an unhandled rejection: the runtime either only warns and the
\* process stays up (TRUE), or it terminates the process (FALSE), depending on
\* its version and flags.
unhandledRejection == {TRUE, FALSE}

\* The process exits: its sockets are closed and its timers are gone.
processExit(cn) ==
  [cn EXCEPT !.st = IF @ \in {"open", "ended"} THEN "closed" ELSE @,
             !.timer = IF @ = "armed" THEN "cleared" ELSE @]

\* ------------------------------------------------------------------- state
VARIABLES
  now,          \* the clock (Date.now())
  tokenFile,    \* the file at config.persistAccesstokenPath
  samplesFile,  \* the file at config.persistLatestSamples
  written,      \* history: which scrape's write the samples file holds (0: an
                \* earlier run's), the cache that scrape's refresh returned and
                \* the lines it answered with
  sc,           \* per scrape request: the locals of getMetrics and its callees
  conn,         \* per connection: the socket and its idle timer
  up            \* the process is running

vars == <<now, tokenFile, samplesFile, written, sc, conn, up>>

Conns == Scrapes

\* A scrape before its data event.  pc is where the scrape is suspended:
\*   idle      no data event yet
\*   loginTok  login awaits client.getToken (line 145)
\*   devTok    getData('devices') awaits client.getToken (line 155)
\*   devices   getData('devices') awaits Wreck.get (line 175)
\*   samples   Promise.all awaits the latest-samples calls (line 226)
\*   done      getMetrics resolved with the metrics in out; its .then callback
\*             (lines 308-313) runs next, before any other handler
\*   ended     the response was written and the connection ended
\*   failed    getMetrics rejected: the .then callback never runs
\* The other fields are the locals (tok: accessToken, prior: cachedLatestSamples
\* as handed to refreshMetrics, detectors, res: the per-detector promises, cache:
\* the cache getMetrics renders, out: the rendered lines) and a record of what
\* the scrape did: conn (the connection its data event came on), tokRead and
\* sampRead (what the reads of the two files met), fromFile (login found a
\* persisted token), loggedIn and t0 (login returned, at t0), doc (the document
\* loaded, with the history of the write it holds), enum (how the device
\* enumeration ended), hubs (devices filtered out), exch / exchOk (token
\* exchanges sent / answered), tokW / tokOk (token file writes / those that
\* succeeded), calls (data requests sent), reqs (for each data request, the
\* expiry of the token it carried and the time of its freshness check, after
\* which it left at once), asked (ids whose
\* latest-samples were requested), sampW / sampOk (samples file writes / those
\* that succeeded), log (the steps of getMetrics in the order they ran).
NoDoc ==
  [present |-> FALSE, hasTs |-> FALSE, persistedAt |-> 0, samples |-> <<>>,
   by |-> 0, out |-> <<>>]
Blank ==
  [pc |-> "idle", conn |-> 0, tokRead |-> "none", sampRead |-> "none",
   tok |-> NoToken, fromFile |-> FALSE, loggedIn |-> FALSE, t0 |-> 0,
   doc |-> NoDoc, useCache |-> FALSE, prior |-> <<>>, cache |-> <<>>,
   enum |-> "none", hubs |-> 0, detectors |-> <<>>, res |-> <<>>, out |-> <<>>,
   exch |-> 0, exchOk |-> 0, tokW |-> 0, tokOk |-> 0, calls |-> 0, reqs |-> {},
   asked |-> {}, sampW |-> 0, sampOk |-> 0, log |-> <<>>]

\* What a read of file f meets.
readStatus(f) ==
  IF ~f.present THEN "absent" ELSE IF f.readable THEN "ok" ELSE "unreadable"

\* Samples documents an earlier run of the program may have left on disk.
entryA == entryOf(decorateDevice(devA), samplesOf(dataP))
entryB == entryOf(decorateDevice(devB), samplesOf(dataQ))
InitCache == JsonCache(<< [k |-> "B", v |-> entryB], [k |-> "A", v |-> entryA] >>)
InitCaches == { <<>>, InitCache }
InitSamplesFiles ==
  {NoSamplesFile, BadSamplesFile}
    \cup { [present |-> TRUE, readable |-> TRUE, hasTs |-> TRUE, persistedAt |-> 0,
            samples |-> c] : c \in InitCaches }
    \cup { [present |-> TRUE, readable |-> TRUE, hasTs |-> TRUE, persistedAt |-> 1,
            samples |-> InitCache],
           [present |-> TRUE, readable |-> TRUE, hasTs |-> FALSE, persistedAt |-> 0,
            samples |-> InitCache] }
InitTokenFiles ==
  {NoTokenFile, BadTokenFile}
    \cup { [present |-> TRUE, readable |-> TRUE, exp |-> e] : e \in {0, TokenLife} }

NoWrite == [by |-> 0, cache |-> <<>>, out |-> <<>>]

Init ==
  /\ now = 0
  /\ tokenFile \in InitTokenFiles
  /\ samplesFile \in InitSamplesFiles
  /\ written = NoWrite
  /\ sc = [s \in Scrapes |-> Blank]
  /\ conn = [c \in Conns |-> NoConn]
  /\ up = TRUE

\* ----------------------------------------------------------------- scrape
\* A scrape whose getMetrics rejected keeps what it counted; its locals are gone.
failure(r, enum) ==
  [Blank EXCEPT !.pc = "failed", !.enum = enum, !.conn = r.conn, !.tok = r.tok,
                !.fromFile = r.fromFile, !.loggedIn = r.loggedIn, !.t0 = r.t0,
                !.useCache = r.useCache, !.exch = r.exch, !.exchOk = r.exchOk,
                !.tokW = r.tokW, !.tokOk = r.tokOk, !.calls = r.calls,
                !.asked = r.asked, !.sampW = r.sampW]

\* getMetrics lines 286-292: render the cache and resolve with the lines.
finish(r, cache) ==
  [r EXCEPT !.pc = "done", !.cache = cache, !.out = render(cache),
            !.log = Append(@, "render")]

\* One data request leaves, carrying the token ensureFreshToken returned at t,
\* which expires at exp.
request(r, exp, t) ==
  [r EXCEPT !.calls = @ + 1, !.reqs = @ \cup {[exp |-> exp, at |-> t]}]

\* getMetrics from line 259 on, once login returned r.tok: load the samples
\* document, decide, and either answer from the cache or enter refreshMetrics up
\* to the first network call of getData('devices').
afterLogin(r, sf, w, t) ==
  LET doc == getPersistedLatestSamples(sf)
      use == useCacheFor(doc, t)
      cached == cachedFor(doc)
      r1 == [r EXCEPT !.loggedIn = TRUE, !.t0 = t, !.sampRead = readStatus(sf),
                      !.doc = IF doc.present
                              THEN [present |-> TRUE, hasTs |-> doc.hasTs,
                                    persistedAt |-> doc.persistedAt,
                                    samples |-> doc.samples,
                                    by |-> w.by, out |-> w.out]
                              ELSE NoDoc,
                      !.useCache = use, !.prior = cached,
                      !.log = <<"load", "decide">>]
  IN IF use THEN finish(r1, cached)
     ELSE IF expired(r.tok, t)
          THEN [r1 EXCEPT !.pc = "devTok", !.exch = @ + 1]
          ELSE [request(r1, r.tok.exp, t) EXCEPT !.pc = "devices"]

\* A variant: a failed exchange is swallowed in login and getMetrics goes on
\* without a token.
loginFailedGoesOn(r, sf, w, t) == afterLogin(r, sf, w, t)

\* login, lines 145-146 with fetchNewToken's rethrow: the exchange failed, login
\* throws and getMetrics rejects before it loads the samples document.
loginFailed(r, sf, w, t) == failure(r, "none")

\* login with a persisted token: createToken, no expiry check, no exchange.
loginFromFile(r, tf) == [r EXCEPT !.tok = [exp |-> tf.exp], !.fromFile = TRUE]

\* A resolved getMetrics has its .then callback queued as a microtask: nothing
\* else runs until that callback has written the response.
Responding == \E s \in Scrapes : sc[s].pc = "done"

\* The event loop can pick a new callback: the process runs and no microtask
\* is queued.
Ready == up /\ ~Responding

\* No scrape is between its data event and its end.
Quiet == \A s \in Scrapes : sc[s].pc \in {"idle", "ended", "failed"}

\* getMetrics of scrape s rejects, leaving the record r.
Rejects(s, r) ==
  /\ sc' = [sc EXCEPT ![s] = r]
  /\ \E stays \in unhandledRejection :
       /\ up' = stays
       /\ conn' = IF stays THEN conn ELSE [c \in Conns |-> processExit(conn[c])]

\* A connection is accepted: handleConnection.  Connections are numbered in
\* the order they are accepted.
Accept(c) ==
  /\ Ready
  /\ conn[c].st = "none"
  /\ \A d \in Conns : d < c => conn[d].st # "none"
  /\ conn' = [conn EXCEPT ![c] = handleConnection(@)]
  /\ UNCHANGED <<now, tokenFile, samplesFile, written, sc, up>>

\* The idle timer of a connection fires.
IdleTimeout(c) ==
  /\ Ready
  /\ conn[c].timer = "armed"
  /\ conn' = [conn EXCEPT ![c] = idleTimeout(@)]
  /\ UNCHANGED <<now, tokenFile, samplesFile, written, sc, up>>

\* The peer closes the connection and the 'close' event is delivered.
Close(c) ==
  /\ Ready
  /\ conn[c].st \in {"open", "ended"}
  /\ conn' = [conn EXCEPT ![c] = onConnectionClose(@)]
  /\ UNCHANGED <<now, tokenFile, samplesFile, written, sc, up>>

\* onConnectionData -> getMetrics -> login: a data event on connection c starts
\* a scrape.  Scrapes are numbered in the order of their data events.
StartScrape(s, c) ==
  /\ Ready
  /\ sc[s].pc = "idle"
  /\ \A q \in Scrapes : q < s => sc[q].pc # "idle"
  /\ conn[c].st \in {"open", "ended"}
  /\ conn' = [conn EXCEPT ![c] = onConnectionData(@)]
  /\ LET tf == getPersistedAccesstoken(tokenFile)
         r == [sc[s] EXCEPT !.conn = c, !.tokRead = readStatus(tokenFile)]
     IN sc' = [sc EXCEPT ![s] =
                 IF tf.present
                 THEN afterLogin(loginFromFile(r, tf), samplesFile, written, now)
                 ELSE [r EXCEPT !.pc = "loginTok", !.exch = @ + 1]]
  /\ UNCHANGED <<now, tokenFile, samplesFile, written, up>>

\* login, lines 145-148: the auth endpoint answers the exchange login sent.
LoginTokenResponse(s) ==
  /\ Ready
  /\ sc[s].pc = "loginTok"
  /\ \/ \E wr \in WriteOutcomes :
          LET token == fetchNewToken(now)
              r == [sc[s] EXCEPT !.tok = token, !.exchOk = @ + 1, !.tokW = @ + 1,
                                 !.tokOk = IF wr = "ok" THEN @ + 1 ELSE @]
          IN /\ tokenFile' = persistAccessToken(tokenFile, token, wr)
             /\ sc' = [sc EXCEPT ![s] = afterLogin(r, samplesFile, written, now)]
             /\ UNCHANGED <<conn, up>>
     \/ /\ Rejects(s, loginFailed(sc[s], samplesFile, written, now))
        /\ UNCHANGED tokenFile
  /\ UNCHANGED <<now, samplesFile, written>>

\* ensureFreshToken inside getData('devices'), lines 155-156 and 175: the auth
\* endpoint answers; the new token is local to getData and the scrape's token
\* object (r.tok) stays the one login returned.
DevTokenResponse(s) ==
  /\ Ready
  /\ sc[s].pc = "devTok"
  /\ \/ \E wr \in WriteOutcomes :
          LET token == fetchNewToken(now)
              r == [sc[s] EXCEPT !.exchOk = @ + 1, !.tokW = @ + 1,
                                 !.tokOk = IF wr = "ok" THEN @ + 1 ELSE @]
          IN /\ tokenFile' = persistAccessToken(tokenFile, token, wr)
             /\ sc' = [sc EXCEPT ![s] =
                         [request(r, token.exp, now) EXCEPT !.pc = "devices"]]
             /\ UNCHANGED <<conn, up>>
     \/ /\ Rejects(s, failure(sc[s], "tokenRefresh"))
        /\ UNCHANGED tokenFile
  /\ UNCHANGED <<now, samplesFile, written>>

\* refreshMetrics lines 225-247: Promise.all rejects as soon as one per-detector
\* promise rejects and the catch then skips the merge; otherwise it resolves
\* once every promise has, and the non-null results are merged.
isRejected(result) == result.kind \in {"authfail", "throw"}
anyRejected(res) == \E i \in 1..Len(res) : isRejected(res[i])
allSettled(res) == \A i \in 1..Len(res) : res[i].kind # "pending"
promiseAllDone(res) == anyRejected(res) \/ allSettled(res)
merged(r) ==
  IF anyRejected(r.res) THEN r.prior ELSE merge(r.prior, r.detectors, r.res)

\* A variant: the metrics are rendered first and the samples file is written
\* afterwards.
refreshEndRenderFirst(r, wr) ==
  [finish(r, merged(r)) EXCEPT !.sampW = @ + 1,
                               !.sampOk = IF wr = "ok" THEN @ + 1 ELSE @,
                               !.log = Append(@, "persist")]

\* refreshMetrics lines 249-250 and the rest of getMetrics.
refreshEnd(r, wr) ==
  finish([r EXCEPT !.sampW = @ + 1, !.sampOk = IF wr = "ok" THEN @ + 1 ELSE @,
                   !.log = Append(@, "persist")],
         merged(r))

\* The history of the samples file after scrape s persisted with outcome wr.
writtenBy(w, s, r, wr) ==
  IF wr = "ok" THEN [by |-> s, cache |-> r.cache, out |-> r.out] ELSE w

\* A variant: the per-detector calls are given the client, so a check that
\* finds the token expired exchanges, persists and then sends its request.
startFetchesWithClient(r, dets, k, t1, t2) ==
  LET stale == {i \in 1..Len(dets) : expired(r.tok, IF i <= k THEN t1 ELSE t2)}
  IN [r EXCEPT !.enum = "ok", !.detectors = dets,
               !.res = [i \in 1..Len(dets) |-> Pending], !.pc = "samples",
               !.exch = @ + Cardinality(stale), !.exchOk = @ + Cardinality(stale),
               !.tokW = @ + Cardinality(stale),
               !.calls = @ + Len(dets),
               !.asked = {dets[i].k : i \in 1..Len(dets)}]

\* The per-detector getData calls start in one synchronous loop (lines 226-231,
\* called without the client): each checks the scrape's token; an expired one
\* makes fetchNewToken(undefined) throw before any request, a valid one sends
\* the request.  The clock may advance once during the loop: the first k
\* detectors are checked at t1, the others at t2.
startFetches(r, dets, k, t1, t2) ==
  LET at(i) == IF i <= k THEN t1 ELSE t2
      res0 == [i \in 1..Len(dets) |->
                 IF expired(r.tok, at(i)) THEN Rejected("authfail") ELSE Pending]
      sent == {i \in 1..Len(dets) : res0[i].kind = "pending"}
  IN [r EXCEPT !.enum = "ok", !.detectors = dets, !.res = res0, !.pc = "samples",
               !.calls = @ + Cardinality(sent),
               !.reqs = @ \cup {[exp |-> r.tok.exp, at |-> at(i)] : i \in sent},
               !.asked = {dets[i].k : i \in sent}]

\* getData('devices') returns, lines 175-184, and refreshMetrics goes on to the
\* per-detector calls, lines 205-237.
DevicesResponse(s, lists) ==
  /\ Ready
  /\ sc[s].pc = "devices"
  /\ \/ \* Wreck.get threw (unreachable, non-2xx) or the body parsed to a falsy
        \* value: getData returns null and refreshMetrics returns its copy.
        /\ sc' = [sc EXCEPT ![s] = finish([sc[s] EXCEPT !.enum = "null"], sc[s].prior)]
        /\ UNCHANGED <<now, samplesFile, written, conn, up>>
     \/ \* the body is not JSON (JSON.parse, line 184, is outside the try) or
        \* holds no devices array (line 211): refreshMetrics rejects.
        /\ Rejects(s, failure(sc[s], "throw"))
        /\ UNCHANGED <<now, samplesFile, written>>
     \/ \E list \in lists, t2 \in {now, now + 1}, wr \in WriteOutcomes :
          LET dets == detectorsOf(list)
          IN \E k \in 0..Len(dets) :
               LET r0 == [sc[s] EXCEPT !.hubs = Len(list) - Len(dets)]
                   r1 == startFetches(r0, dets, k, now, t2)
               IN /\ t2 <= MaxTime
                  /\ t2 = now => k = Len(dets)
                  /\ now' = t2
                  /\ IF promiseAllDone(r1.res)
                     THEN /\ samplesFile' =
                               persistLatestSamples(samplesFile, merged(r1), t2, wr)
                          /\ written' = writtenBy(written, s, refreshEnd(r1, wr), wr)
                          /\ sc' = [sc EXCEPT ![s] = refreshEnd(r1, wr)]
                     ELSE /\ sc' = [sc EXCEPT ![s] = r1]
                          /\ UNCHANGED <<samplesFile, written>>
                  /\ UNCHANGED <<conn, up>>
  /\ UNCHANGED tokenFile

\* What one latest-samples call can come to: null (Wreck.get threw, or a falsy
\* body), a rejection (a body that is not JSON, line 184, or one without a data
\* object, line 233), or the samples.
SampleResults ==
  {NullResult, Rejected("throw")} \cup {OkResult(d) : d \in SampleData}

\* One latest-samples call returns, lines 228-236; when Promise.all is done
\* with it, refreshMetrics merges, persists and getMetrics renders.
SampleResponse(s, results) ==
  /\ Ready
  /\ sc[s].pc = "samples"
  /\ \E i \in 1..Len(sc[s].res), result \in results, wr \in WriteOutcomes :
       LET r1 == [sc[s] EXCEPT !.res[i] = result]
       IN /\ sc[s].res[i].kind = "pending"
          /\ IF promiseAllDone(r1.res)
             THEN /\ samplesFile' =
                       persistLatestSamples(samplesFile, merged(r1), now, wr)
                  /\ written' = writtenBy(written, s, refreshEnd(r1, wr), wr)
                  /\ sc' = [sc EXCEPT ![s] = refreshEnd(r1, wr)]
             ELSE /\ sc' = [sc EXCEPT ![s] = r1]
                  /\ UNCHANGED <<samplesFile, written>>
  /\ UNCHANGED <<now, tokenFile, conn, up>>

\* onConnectionData's .then callback, lines 308-313: the status line, the
\* headers and the metric lines are written and the connection is ended.
Respond(s) ==
  /\ up
  /\ sc[s].pc = "done"
  /\ conn' = [conn EXCEPT ![sc[s].conn] = connectionWriteEnd(@)]
  /\ sc' = [sc EXCEPT ![s] = [Blank EXCEPT !.pc = "ended"]]
  /\ UNCHANGED <<now, tokenFile, samplesFile, written, up>>

\* Time passes.
Tick ==
  /\ Ready
  /\ now < MaxTime
  /\ now' = now + 1
  /\ UNCHANGED <<tokenFile, samplesFile, written, sc, conn, up>>

\* The serial environment: one client at a time.  A connection is accepted
\* while no scrape is in flight and every earlier connection has sent its data;
\* its data event comes before its idle timer fires, and the client neither
\* sends again nor closes.
SerialAccept(c) ==
  /\ Quiet
  /\ \A d \in Conns : d < c => conn[d].data > 0
  /\ Accept(c)
SerialStart(s, c) == Quiet /\ conn[c].data = 0 /\ StartScrape(s, c)

\* Scrapes served one after another.
Next ==
  \/ \E c \in Conns : SerialAccept(c)
  \/ \E s \in Scrapes, c \in Conns : SerialStart(s, c)
  \/ \E s \in Scrapes : LoginTokenResponse(s)
  \/ \E s \in Scrapes : DevTokenResponse(s)
  \/ \E s \in Scrapes : DevicesResponse(s, DeviceLists)
  \/ \E s \in Scrapes : SampleResponse(s, SampleResults)
  \/ \E s \in Scrapes : Respond(s)
  \/ Tick

Spec == Init /\ [][Next]_vars

\* --------------------------------------------------- overlapping scrapes
\* Clients that overlap: a connection is accepted and sends its data whatever
\* the other scrapes are doing (as before, each connection sends once, before
\* its idle timer fires).  The upstream payloads are fewer: one device list, and
\* a latest-samples call that comes to null, to a rejection or to one data
\* object.
OverlapLists == { <<devH, devB, devA2>> }
OverlapResults == {NullResult, Rejected("throw"), OkResult(dataP)}
OverlapSamplesFiles ==
  {NoSamplesFile,
   [present |-> TRUE, readable |-> TRUE, hasTs |-> TRUE, persistedAt |-> 0,
    samples |-> JsonCache(<< [k |-> "B", v |-> entryB] >>)]}
OverlapTokenFiles ==
  {NoTokenFile, [present |-> TRUE, readable |-> TRUE, exp |-> TokenLife]}

InitOverlap ==
  /\ now = 0
  /\ tokenFile \in OverlapTokenFiles
  /\ samplesFile \in OverlapSamplesFiles
  /\ written = NoWrite
  /\ sc = [s \in Scrapes |-> Blank]
  /\ conn = [c \in Conns |-> NoConn]
  /\ up = TRUE

OverlapAccept(c) ==
  /\ \A d \in Conns : d < c => conn[d].data > 0
  /\ Accept(c)
OverlapStart(s, c) == conn[c].data = 0 /\ StartScrape(s, c)

NextOverlap ==
  \/ \E c \in Conns : OverlapAccept(c)
  \/ \E s \in Scrapes, c \in Conns : OverlapStart(s, c)
  \/ \E s \in Scrapes : LoginTokenResponse(s)
  \/ \E s \in Scrapes : DevTokenResponse(s)
  \/ \E s \in Scrapes : DevicesResponse(s, OverlapLists)
  \/ \E s \in Scrapes : SampleResponse(s, OverlapResults)
  \/ \E s \in Scrapes : Respond(s)
  \/ Tick

SpecOverlap == InitOverlap /\ [][NextOverlap]_vars

\* ------------------------------------------------------------ connections
\* Any client: connections are accepted, send data any number of times, stay
\* silent or close at any moment, and scrapes overlap.  The upstream is reduced
\* to one device list with one detector and to a latest-samples call that
\* comes to a data object or to a rejection; no samples file exists at the start,
\* the token file is absent or holds an expired token, and
\* the clock advances only while a device list is being handled.
ConnLists == { <<devH, devB>> }
ConnResults == {Rejected("throw"), OkResult(dataP)}

ConnTokenFiles ==
  {NoTokenFile, [present |-> TRUE, readable |-> TRUE, exp |-> 0]}

InitConn ==
  /\ now = 0
  /\ tokenFile \in ConnTokenFiles
  /\ samplesFile = NoSamplesFile
  /\ written = NoWrite
  /\ sc = [s \in Scrapes |-> Blank]
  /\ conn = [c \in Conns |-> NoConn]
  /\ up = TRUE

\* The peer closes a connection the server has ended, or one it never sent on.
PeerClose(c) ==
  /\ conn[c].st = "ended" \/ conn[c].data = 0
  /\ Close(c)

NextConn ==
  \/ \E c \in Conns : Accept(c)
  \/ \E c \in Conns : IdleTimeout(c)
  \/ \E c \in Conns : PeerClose(c)
  \/ \E s \in Scrapes, c \in Conns : StartScrape(s, c)
  \/ \E s \in Scrapes : LoginTokenResponse(s)
  \/ \E s \in Scrapes : DevTokenResponse(s)
  \/ \E s \in Scrapes : DevicesResponse(s, ConnLists)
  \/ \E s \in Scrapes : SampleResponse(s, ConnResults)
  \/ \E s \in Scrapes : Respond(s)

SpecConn == InitConn /\ [][NextConn]_vars

\* What the program and its runtime owe: a queued callback runs, a timer that
\* is armed fires, and every upstream call comes back, with an answer or with
\* an error.  Clients owe nothing.
Fairness ==
  /\ \A c \in Conns : WF_vars(IdleTimeout(c))
  /\ \A s \in Scrapes :
       /\ WF_vars(LoginTokenResponse(s))
       /\ WF_vars(DevTokenResponse(s))
       /\ WF_vars(DevicesResponse(s, ConnLists))
       /\ WF_vars(SampleResponse(s, ConnResults))
       /\ WF_vars(Respond(s))

FairConn == SpecConn /\ Fairness

\* -------------------------------------------------------------- properties
\* A scrape whose refresh enumerated the devices and has returned; its locals
\* are in view until its response is written.
Refreshed(s) == sc[s].pc = "done" /\ sc[s].enum = "ok"

\* The latest-samples fetch of a detector failed: getData returned null, or it
\* rejected (an unusable body, or a token refresh that failed).
FetchFailed(result) == result.kind \in {"null", "throw", "authfail"}

\* Two caches agree on id: both lack it, or both hold the same entry.
SameEntry(c1, c2, id) ==
  /\ MapHas(c1, id) <=> MapHas(c2, id)
  /\ MapHas(c1, id) => MapGet(c1, id) = MapGet(c2, id)

(***************************************************************************)
(* C1. Partial failure preserves prior state: after a refresh whose device  *)
(* enumeration succeeded, every detector whose latest-samples fetch         *)
(* succeeded has its entry replaced by the detector with the fetched        *)
(* samples, and every detector whose fetch failed has the entry (or the     *)
(* absence) the prior cache had.                                            *)
(***************************************************************************)
C1_PartialFailurePreservesPrior ==
  \A s \in Scrapes :
    Refreshed(s) =>
      \A i \in 1..Len(sc[s].res) :
        LET id == sc[s].detectors[i].k
        IN /\ sc[s].res[i].kind = "ok" =>
                /\ MapHas(sc[s].cache, id)
                /\ MapGet(sc[s].cache, id) =
                     entryOf(sc[s].detectors[i].v, sc[s].res[i].samples)
           /\ FetchFailed(sc[s].res[i]) => SameEntry(sc[s].cache, sc[s].prior, id)

(***************************************************************************)
(* C2. Per-detector fetches are independent: when the fetch of one detector *)
(* fails in whatever way, the samples fetched for every other detector are  *)
(* in the returned cache and, when the samples file was written, in the     *)
(* file.                                                                    *)
(***************************************************************************)
C2_FetchesIndependent ==
  \A s \in Scrapes :
    (Refreshed(s) /\ \E j \in 1..Len(sc[s].res) : FetchFailed(sc[s].res[j])) =>
      \A i \in 1..Len(sc[s].res) :
        LET id == sc[s].detectors[i].k
        IN sc[s].res[i].kind = "ok" =>
             /\ MapHas(sc[s].cache, id)
             /\ MapGet(sc[s].cache, id).latestSamples = sc[s].res[i].samples
             /\ sc[s].sampOk = 1 =>
                  /\ MapHas(samplesFile.samples, id)
                  /\ MapGet(samplesFile.samples, id).latestSamples =
                       JsonSamples(sc[s].res[i].samples)

\* The scrape has taken the cache-hit decision and its locals are in view.
Decided(s) == sc[s].pc \in {"devTok", "devices", "samples", "done"}

(***************************************************************************)
(* C3. Cache freshness is a pure function of time: the loaded document is   *)
(* served from the cache exactly when it has a persistedAt and              *)
(* now - persistedAt <= TTL, for every age, age 0 included.                 *)
(***************************************************************************)
C3_FreshIffWithinTTL ==
  \A s \in Scrapes :
    Decided(s) =>
      (sc[s].useCache <=>
         /\ sc[s].doc.present
         /\ sc[s].doc.hasTs
         /\ sc[s].t0 - sc[s].doc.persistedAt <= TTL)

(***************************************************************************)
(* C4. A failing device enumeration falls back to the prior cache: when    *)
(* the device-list call is not answered with a usable payload, the refresh  *)
(* returns the cache it was given, nothing escapes to getMetrics, and the   *)
(* scrape renders and answers with the prior entries.                       *)
(***************************************************************************)
C4_EnumerationFailureFallsBack ==
  \A s \in Scrapes :
    sc[s].enum \in {"null", "throw"} =>
      /\ sc[s].pc = "done"
      /\ sc[s].cache = sc[s].prior
      /\ sc[s].out = render(sc[s].prior)

(***************************************************************************)
(* C5. Token reuse: a scrape that found a persisted token which is not      *)
(* expired performs no token exchange, whether it answers from the cache or *)
(* refreshes, whatever the number of detectors.                             *)
(***************************************************************************)
C5_TokenReuse ==
  \A s \in Scrapes :
    (sc[s].fromFile /\ sc[s].tok.exp > sc[s].t0) =>
      sc[s].exch = 0 /\ sc[s].exchOk = 0 /\ sc[s].tokW = 0

\* A refresh over two detectors, three data calls, with the persisted token.
C5_Witness ==
  \E s \in Scrapes :
    /\ Refreshed(s)
    /\ sc[s].fromFile
    /\ sc[s].tok.exp > sc[s].t0
    /\ Len(sc[s].detectors) = 2
    /\ sc[s].calls = 3
    /\ sc[s].exch = 0

\* The scrape found a persisted token already expired and went on to refresh.
ExpiredAtLogin(s) ==
  sc[s].fromFile /\ sc[s].tok.exp <= sc[s].t0 /\ ~sc[s].useCache

(***************************************************************************)
(* C6, as claimed. Token refresh on expiry: a scrape that found an expired  *)
(* persisted token and needed upstream data has, when it is over, performed *)
(* exactly one token exchange and written the token file exactly once.      *)
(***************************************************************************)
C6_OneExchangeOneWrite ==
  \A s \in Scrapes :
    (ExpiredAtLogin(s) /\ sc[s].pc \in {"done", "failed"}) =>
      sc[s].exch = 1 /\ sc[s].tokW = 1

(***************************************************************************)
(* C6, amended. Such a scrape sends exactly one token exchange, however     *)
(* many data calls its refresh makes; it writes the token file exactly once *)
(* when that exchange succeeds and not at all when it fails, in which case  *)
(* the scrape fails.                                                        *)
(***************************************************************************)
C6_OneExchange ==
  \A s \in Scrapes :
    ExpiredAtLogin(s) =>
      /\ sc[s].exch = 1
      /\ sc[s].tokW = sc[s].exchOk
      /\ sc[s].pc = "devTok" => sc[s].exchOk = 0
      /\ sc[s].pc \in {"devices", "samples", "done"} => sc[s].exchOk = 1
      /\ sc[s].pc = "failed" =>
           (sc[s].exchOk = 0 <=> sc[s].enum = "tokenRefresh")

\* A refresh over two detectors that began with an expired persisted token.
C6_Witness ==
  \E s \in Scrapes :
    /\ Refreshed(s)
    /\ ExpiredAtLogin(s)
    /\ Len(sc[s].detectors) = 2
    /\ sc[s].exch = 1
    /\ sc[s].tokW = 1

(***************************************************************************)
(* C7. login returns a currently-valid token: once login has returned, the  *)
(* token the scrape holds is not expired at that moment, and a scrape that  *)
(* found no persisted token has exchanged and persisted one.                *)
(***************************************************************************)
C7_LoginReturnsValidToken ==
  \A s \in Scrapes :
    sc[s].loggedIn =>
      /\ sc[s].tok.exp > sc[s].t0
      /\ ~sc[s].fromFile => sc[s].exchOk >= 1 /\ sc[s].tokW >= 1

\* The ids the upstream enumerates as hubs.
HubIds ==
  UNION { {l[i].id : i \in {j \in 1..Len(l) : l[j].deviceType = "HUB"}} :
            l \in DeviceLists }
LineIds(out) == {out[n].device_id : n \in 1..Len(out)}

(***************************************************************************)
(* C8. Hub exclusion: no cache entry, in memory or on disk, no rendered     *)
(* line and no latest-samples call carries the id of a device enumerated as *)
(* a hub.                                                                   *)
(***************************************************************************)
C8_HubExclusion ==
  \A h \in HubIds :
    /\ ~MapHas(samplesFile.samples, h)
    /\ h \notin LineIds(written.out)
    /\ \A s \in Scrapes :
         /\ ~MapHas(sc[s].prior, h)
         /\ ~MapHas(sc[s].detectors, h)
         /\ ~MapHas(sc[s].cache, h)
         /\ h \notin LineIds(sc[s].out)
         /\ h \notin sc[s].asked

\* A refresh whose device list held a hub beside detectors, fetched, persisted
\* and rendered.
C8_Witness ==
  \E s \in Scrapes :
    /\ Refreshed(s)
    /\ sc[s].hubs >= 1
    /\ sc[s].asked # {}
    /\ sc[s].sampOk = 1
    /\ Len(sc[s].out) > 0

\* The reserved sample fields, and the (detector, field) pairs to be rendered.
Reserved == {"time", "relayDeviceType"}
MetricPairs(cache) ==
  UNION { { <<i, j>> : j \in {n \in 1..Len(cache[i].v.latestSamples) :
                                cache[i].v.latestSamples[n].k \notin Reserved} } :
            i \in 1..Len(cache) }
LineFor(cache, p) ==
  LET d == cache[p[1]].v
  IN [metric |-> d.latestSamples[p[2]].k, device_id |-> d.id,
      device_location |-> d.location, device_segment |-> d.segment,
      value |-> d.latestSamples[p[2]].v]

(***************************************************************************)
(* C9. Rendering content: the rendered output has exactly one line for each *)
(* pair of a cached detector and one of its sample fields outside the       *)
(* reserved set, carrying the detector's id, location and segment and the   *)
(* field's value; it has no line for a reserved field and no other line.    *)
(***************************************************************************)
C9_RenderContent ==
  \A s \in Scrapes :
    sc[s].pc = "done" =>
      /\ Len(sc[s].out) = Cardinality(MetricPairs(sc[s].cache))
      /\ \A p \in MetricPairs(sc[s].cache) :
           Cardinality({n \in 1..Len(sc[s].out) :
                          sc[s].out[n] = LineFor(sc[s].cache, p)}) = 1
      /\ \A n \in 1..Len(sc[s].out) : sc[s].out[n].metric \notin Reserved

\* A rendered cache of two detectors with both reserved fields among the samples.
C9_Witness ==
  \E s \in Scrapes :
    /\ sc[s].pc = "done"
    /\ Len(sc[s].cache) = 2
    /\ \E i \in 1..2 : MapHas(sc[s].cache[i].v.latestSamples, "relayDeviceType")
    /\ \E i \in 1..2 : MapHas(sc[s].cache[i].v.latestSamples, "temp")
    /\ Len(sc[s].out) = 3

(***************************************************************************)
(* C10. Idempotence under cache hit: a scrape that finds the token file and *)
(* loads the samples document an earlier scrape wrote, while that document  *)
(* is within the TTL window, makes no network call, writes neither file and *)
(* returns the lines the earlier scrape returned.                           *)
(***************************************************************************)
C10_IdempotentCacheHit ==
  \A s \in Scrapes :
    ( /\ sc[s].fromFile
      /\ sc[s].doc.present
      /\ sc[s].doc.hasTs
      /\ sc[s].doc.by \notin {0, s}
      /\ sc[s].t0 - sc[s].doc.persistedAt >= 0
      /\ sc[s].t0 - sc[s].doc.persistedAt <= TTL ) =>
      /\ sc[s].exch = 0
      /\ sc[s].calls = 0
      /\ sc[s].tokW = 0
      /\ sc[s].sampW = 0
      /\ sc[s].pc = "done" => sc[s].out = sc[s].doc.out

(***************************************************************************)
(* C11. A failed scrape still closes its connection: on every connection on *)
(* which data arrived, the connection is eventually ended, also when        *)
(* getMetrics fails.                                                        *)
(***************************************************************************)
C11_DataLeadsToEnd ==
  \A c \in Conns :
    (conn[c].data > 0) ~> (conn[c].st \in {"ended", "closed"})

\* The cache a finished getMetrics computed: the loaded samples on a cache
\* hit, the prior cache when the enumeration returned null, the merge otherwise.
computedCache(r) ==
  IF r.useCache THEN r.doc.samples
  ELSE IF r.enum = "ok" THEN merged(r) ELSE r.prior

(***************************************************************************)
(* C12. Persistence failures are absorbed: a token file that cannot be read *)
(* or parsed counts as absent and forces a token exchange; a samples file   *)
(* that cannot be read or parsed counts as absent and forces a refresh from *)
(* the empty cache; a write of either file that fails does not fail the     *)
(* scrape (after a failed token write the scrape goes on to the device      *)
(* list, and only an unusable device list fails it; after a failed samples  *)
(* write it ends); and a scrape that ends returns the rendering of the      *)
(* cache it computed.                                                       *)
(***************************************************************************)
C12_PersistenceAbsorbed ==
  \A s \in Scrapes :
    /\ sc[s].tokRead = "unreadable" => ~sc[s].fromFile /\ sc[s].exch >= 1
    /\ sc[s].sampRead = "unreadable" =>
         /\ ~sc[s].doc.present
         /\ ~sc[s].useCache
         /\ sc[s].prior = <<>>
         /\ sc[s].pc \in {"devTok", "devices", "samples", "done"}
         /\ sc[s].pc = "done" => sc[s].enum \in {"ok", "null"}
    /\ sc[s].tokW > sc[s].tokOk =>
         \/ sc[s].pc \in {"devices", "samples", "done"}
         \/ sc[s].pc = "failed" /\ sc[s].enum = "throw"
    /\ sc[s].sampW > sc[s].sampOk => sc[s].pc = "done"
    /\ sc[s].pc = "done" =>
         /\ sc[s].cache = computedCache(sc[s])
         /\ sc[s].out = render(sc[s].cache)

\* A scrape that could read neither file and could write neither file, and
\* still answers with the lines of what it fetched.
C12_Witness ==
  \E s \in Scrapes :
    /\ sc[s].pc = "done"
    /\ sc[s].tokRead = "unreadable"
    /\ sc[s].sampRead = "unreadable"
    /\ sc[s].tokW = 1 /\ sc[s].tokOk = 0
    /\ sc[s].sampW = 1 /\ sc[s].sampOk = 0
    /\ Len(sc[s].out) > 0
    /\ ~tokenFile.readable
    /\ ~samplesFile.readable

(***************************************************************************)
(* C13. The token freshness check precedes every upstream data call: each   *)
(* request to the device-list or a latest-samples endpoint carries a token  *)
(* that, when the request leaves, is not expired (found so by the check, or *)
(* just exchanged); and when the check's exchange fails or cannot be made,  *)
(* no request is sent for that call.                                        *)
(***************************************************************************)
C13_CheckBeforeCall ==
  \A s \in Scrapes :
    /\ \A q \in sc[s].reqs : q.exp > q.at
    /\ sc[s].calls >= Cardinality(sc[s].reqs)
    /\ (sc[s].calls > 0 /\ sc[s].pc # "failed") => sc[s].reqs # {}
    /\ (sc[s].pc = "failed" /\ sc[s].enum \in {"none", "tokenRefresh"}) =>
         sc[s].calls = 0 /\ sc[s].asked = {}
    /\ sc[s].pc = "devTok" => sc[s].calls = 0
    /\ \A i \in 1..Len(sc[s].res) :
         sc[s].res[i].kind = "authfail" => sc[s].detectors[i].k \notin sc[s].asked

\* A refresh that began with an expired token: one exchange, then the device
\* list is asked with the new token; the detectors' checks find the scrape's
\* token expired and send nothing.
C13_Witness ==
  \E s \in Scrapes :
    /\ Refreshed(s)
    /\ sc[s].exchOk = 1
    /\ sc[s].calls = 1
    /\ Len(sc[s].res) = 2
    /\ \A i \in 1..2 : sc[s].res[i].kind = "authfail"
    /\ \E q \in sc[s].reqs : q.exp = q.at + TokenLife

(***************************************************************************)
(* C14. Ordering within one scrape: the samples file is loaded before the   *)
(* freshness decision; a refresh that was triggered has returned, its write *)
(* of the samples file included, before the metrics are rendered; and no    *)
(* response byte is on the scrape's connection before the rendering: while  *)
(* the scrape is under way, its connection has no response.                 *)
(***************************************************************************)
C14_Ordering ==
  \A s \in Scrapes :
    /\ sc[s].pc \in {"devTok", "devices", "samples"} =>
         sc[s].log = <<"load", "decide">>
    /\ sc[s].pc = "done" =>
         sc[s].log = IF sc[s].sampW > 0
                     THEN <<"load", "decide", "persist", "render">>
                     ELSE <<"load", "decide", "render">>
    /\ (sc[s].pc = "done" /\ ~sc[s].useCache /\ sc[s].enum = "ok") =>
         sc[s].sampW = 1
    /\ sc[s].pc \in {"loginTok", "devTok", "devices", "samples", "done"} =>
         /\ conn[sc[s].conn].resp = 0
         /\ ~conn[sc[s].conn].late
         /\ conn[sc[s].conn].st = "open"

\* A refresh that has persisted and rendered, its response not yet written.
C14_Witness ==
  \E s \in Scrapes :
    /\ Refreshed(s)
    /\ sc[s].sampOk = 1
    /\ samplesFile.persistedAt = now
    /\ sc[s].log = <<"load", "decide", "persist", "render">>
    /\ Len(sc[s].out) > 0
    /\ conn[sc[s].conn].resp = 0

(***************************************************************************)
(* C15. On a cache miss the refresh starts from the samples of the loaded   *)
(* document whenever a document was loaded, be it stale or without a        *)
(* persistedAt, and from the empty map only when none was loaded.           *)
(***************************************************************************)
C15_RefreshStartsFromLoaded ==
  \A s \in Scrapes :
    (Decided(s) /\ ~sc[s].useCache) =>
      sc[s].prior = IF sc[s].doc.present THEN sc[s].doc.samples ELSE <<>>

\* Scrape s is between its cache-miss decision and the end of its refresh.
Refreshing(s) == sc[s].pc \in {"devTok", "devices", "samples"} /\ ~sc[s].useCache

(***************************************************************************)
(* C16. No deduplication, last writer wins: with overlapping scrapes, the   *)
(* samples file is at every moment either the file the program started     *)
(* with or exactly the document of one refresh, the last that wrote: the    *)
(* whole cache that refresh returned.  What a scrape returns is computed    *)
(* from the document that scrape loaded and the results of its own fetches, *)
(* and a scrape that has just written is the writer the file shows.         *)
(***************************************************************************)
C16_LastWriterWins ==
  /\ written.by = 0 => samplesFile \in OverlapSamplesFiles
  /\ written.by # 0 =>
       /\ samplesFile.present /\ samplesFile.readable /\ samplesFile.hasTs
       /\ samplesFile.samples = JsonCache(written.cache)
       /\ written.out = render(written.cache)
  /\ \A s \in Scrapes :
       /\ (sc[s].loggedIn /\ sc[s].pc # "failed") =>
            sc[s].prior = cachedFor(sc[s].doc)
       /\ sc[s].pc = "done" =>
            /\ sc[s].cache = computedCache(sc[s])
            /\ sc[s].out = render(sc[s].cache)
            /\ sc[s].sampOk = 1 =>
                 /\ written.by = s
                 /\ written.cache = sc[s].cache
                 /\ samplesFile.persistedAt = now

\* Two scrapes have both decided cache miss on the same document; the later
\* one has finished its refresh and written the file while the earlier one is
\* still fetching, and will overwrite the file in its turn.
C16_Witness ==
  \E s1, s2 \in Scrapes :
    /\ s1 < s2
    /\ Refreshing(s1)
    /\ sc[s1].pc = "samples"
    /\ sc[s1].doc.by = 0
    /\ sc[s2].doc.by = 0
    /\ Refreshed(s2)
    /\ sc[s2].sampOk = 1
    /\ written.by = s2
    /\ Len(written.cache) > 0

\* The idle timer closes only connections that have sent no data, and on such
\* a connection nothing was processed: no scrape belongs to it and no response
\* was written.  Once data has arrived the timer is no longer armed, and it
\* never fires after a data event.
IdleTimerSafe ==
  \A c \in Conns :
    /\ conn[c].timer # "firedBusy"
    /\ conn[c].timer = "armed" => conn[c].st = "open" /\ conn[c].data = 0
    /\ conn[c].data > 0 => conn[c].timer \in {"cleared", "firedIdle"}
    /\ conn[c].timer = "firedIdle" => conn[c].st \in {"ended", "closed"}
    /\ conn[c].data = 0 =>
         /\ conn[c].resp = 0
         /\ ~conn[c].late
         /\ \A s \in Scrapes : sc[s].conn # c

\* A connection does not stay open and silent for ever.
IdleWaitBounded ==
  \A c \in Conns :
    (conn[c].st = "open" /\ conn[c].data = 0)
      ~> (conn[c].st # "open" \/ conn[c].data > 0)

(***************************************************************************)
(* C17. Bounded idle-wait: a connection that sends no data does not stay    *)
(* open: it is closed, by the idle timer unless the peer closes first, and  *)
(* nothing is processed for it (no scrape, no response).  Once data has     *)
(* arrived the timer is cancelled and never closes the connection.          *)
(***************************************************************************)
C17_IdleWait == []IdleTimerSafe /\ IdleWaitBounded

\* One connection was ended by its idle timer without having sent anything,
\* while a scrape is in flight on another, whose timer was cleared.
C17_Witness ==
  \E c, d \in Conns :
    /\ conn[c].timer = "firedIdle"
    /\ conn[c].data = 0
    /\ conn[c].st = "ended"
    /\ conn[d].timer = "cleared"
    /\ conn[d].data = 1
    /\ conn[d].st = "open"
    /\ \E s \in Scrapes : sc[s].conn = d /\ sc[s].pc = "samples"

(***************************************************************************)
(* C18. One scrape per connection: whatever data events arrive on a         *)
(* connection, getMetrics is called at most once for it, at most one        *)
(* response is written, and nothing is written after the connection was     *)
(* ended.                                                                   *)
(***************************************************************************)
C18_OneScrapePerConnection ==
  \A c \in Conns :
    /\ conn[c].data <= 1
    /\ conn[c].resp <= 1
    /\ ~conn[c].late

\* Every upstream endpoint the refresh of scrape s turned to answered with a
\* usable payload: no exchange failed, the devices were enumerated, and no
\* latest-samples call came to null or to an unusable body.
UpstreamAllOk(s) ==
  /\ Refreshed(s)
  /\ sc[s].exch = sc[s].exchOk
  /\ \A i \in 1..Len(sc[s].res) : sc[s].res[i].kind \notin {"null", "throw"}

(***************************************************************************)
(* C19. Complete refresh on upstream success: when every upstream endpoint  *)
(* answers successfully, the cache the refresh returns, and the file when   *)
(* it was written, hold for every enumerated detector the samples just      *)
(* fetched for it, whether the token held at the start was valid or         *)
(* expired.                                                                 *)
(***************************************************************************)
C19_CompleteRefresh ==
  \A s \in Scrapes :
    UpstreamAllOk(s) =>
      \A i \in 1..Len(sc[s].detectors) :
        LET id == sc[s].detectors[i].k
        IN /\ sc[s].res[i].kind = "ok"
           /\ MapHas(sc[s].cache, id)
           /\ MapGet(sc[s].cache, id) =
                entryOf(sc[s].detectors[i].v, sc[s].res[i].samples)
           /\ sc[s].sampOk = 1 =>
                /\ MapHas(samplesFile.samples, id)
                /\ MapGet(samplesFile.samples, id).latestSamples =
                     JsonSamples(sc[s].res[i].samples)

\* The login of scrape s found no usable token file and its exchange failed.
LoginExchangeFailed(s) ==
  /\ sc[s].pc \notin {"idle", "loginTok", "ended"}
  /\ ~sc[s].fromFile
  /\ sc[s].exchOk = 0

\* What a scrape whose login failed has done: one exchange, and nothing else.
C20_NothingDone ==
  \A s \in Scrapes :
    LoginExchangeFailed(s) =>
      /\ sc[s].pc = "failed"
      /\ sc[s].enum = "none"
      /\ sc[s].exch = 1
      /\ sc[s].calls = 0
      /\ sc[s].asked = {}
      /\ sc[s].tokW = 0
      /\ sc[s].sampW = 0
      /\ sc[s].out = <<>>
      /\ written.by # s
      /\ conn[sc[s].conn].resp = 0
      /\ ~conn[sc[s].conn].late

\* The step on which the exchange of scrape s fails at login.
LoginFails(s) ==
  /\ sc[s].pc = "loginTok"
  /\ sc'[s].pc # "loginTok"
  /\ sc'[s].exchOk = 0

\* That step leaves both files, the last written document and every other
\* scrape as they were.
C20_StepChangesNothing ==
  \A s \in Scrapes :
    LoginFails(s) =>
      /\ UNCHANGED <<tokenFile, samplesFile, written>>
      /\ \A q \in Scrapes \ {s} : sc'[q] = sc[q]

(***************************************************************************)
(* C20. Auth failure during login changes no state: when no usable token    *)
(* file exists and the exchange fails, the scrape writes no response and no *)
(* metric lines, issues no upstream data call, and leaves the token file    *)
(* and the samples file exactly as they were.                               *)
(***************************************************************************)
C20_LoginFailureChangesNothing ==
  []C20_NothingDone /\ [][C20_StepChangesNothing]_vars

\* A login failure has happened with an unreadable token file in place.
C20_Witness ==
  \E s \in Scrapes :
    /\ LoginExchangeFailed(s)
    /\ sc[s].pc = "failed"
    /\ tokenFile.present
    /\ ~tokenFile.readable

\* The refresh of scrape s ended without a device list: getData('devices')
\* returned null (the scrape goes on to render), or the call rejected and the
\* scrape failed after its cache-miss decision.
EnumerationFailed(s) ==
  \/ sc[s].pc = "done" /\ ~sc[s].useCache /\ sc[s].enum = "null"
  \/ sc[s].pc = "failed" /\ sc[s].loggedIn /\ ~sc[s].useCache

\* The samples file is the document scrape s loaded.
FileAsLoaded(s) ==
  LET doc == getPersistedLatestSamples(samplesFile)
  IN /\ sc[s].doc.present = doc.present
     /\ doc.present =>
          /\ sc[s].doc.hasTs = doc.hasTs
          /\ sc[s].doc.persistedAt = doc.persistedAt
          /\ sc[s].doc.samples = doc.samples

\* A refresh writes the samples file once when the devices were enumerated,
\* whatever the per-detector fetches came to, and not at all otherwise; a write
\* that went through left the returned cache on file, stamped with the time of
\* the write.
C21_WritesIffEnumerated ==
  \A s \in Scrapes :
    /\ sc[s].pc = "done" =>
         sc[s].sampW = IF ~sc[s].useCache /\ sc[s].enum = "ok" THEN 1 ELSE 0
    /\ sc[s].pc # "done" => sc[s].sampW = 0
    /\ sc[s].sampOk = 1 =>
         /\ samplesFile.present /\ samplesFile.readable /\ samplesFile.hasTs
         /\ samplesFile.persistedAt = now
         /\ samplesFile.samples = JsonCache(sc[s].cache)

\* A refresh whose enumeration returned null leaves the file it loaded.
C21_FailureLeavesFile ==
  \A s \in Scrapes :
    (sc[s].pc = "done" /\ ~sc[s].useCache /\ sc[s].enum = "null") => FileAsLoaded(s)

\* After a refresh whose enumeration failed, the file is one that a scrape
\* decides cache miss on at every later time, and the scrape that follows a
\* failed one has decided so.
C21_NextDecidesMiss ==
  \A s \in Scrapes :
    /\ (sc[s].pc = "done" /\ EnumerationFailed(s)) =>
         \A t \in now..MaxTime :
           ~useCacheFor(getPersistedLatestSamples(samplesFile), t)
    /\ (sc[s].pc = "failed" /\ EnumerationFailed(s)) =>
         \A q \in Scrapes : (q = s + 1 /\ sc[q].loggedIn) => ~sc[q].useCache

(***************************************************************************)
(* C21. A refresh rewrites the samples file, and so sets its persistedAt,   *)
(* exactly when the device enumeration returned a payload, however many     *)
(* per-detector fetches succeeded; when the enumeration fails the file and  *)
(* its persistedAt are left as they were, so that the next scrape decides   *)
(* cache miss again.                                                        *)
(***************************************************************************)
C21_RewriteIffEnumerated ==
  /\ C21_WritesIffEnumerated
  /\ C21_FailureLeavesFile
  /\ C21_NextDecidesMiss

\* The ids refreshMetrics of scrape r overwrote: those whose fetched samples
\* were merged.
Overwritten(r) ==
  IF r.useCache \/ r.enum # "ok" \/ anyRejected(r.res) THEN {}
  ELSE {r.detectors[i].k : i \in {j \in 1..Len(r.res) : r.res[j].kind = "ok"}}

\* The lines of sequence a all occur in sequence b.
LinesIn(a, b) == \A i \in 1..Len(a) : \E j \in 1..Len(b) : b[j] = a[i]

\* Cache m is kept by scrape r: each of its detectors is in the cache r
\* renders, with the entry it had unless the refresh overwrote it, its lines
\* are among those rendered, and it is in the file when r wrote it.
KeptBy(m, r, sf) ==
  \A i \in 1..Len(m) :
    LET id == m[i].k
    IN /\ MapHas(r.cache, id)
       /\ id \notin Overwritten(r) => MapGet(r.cache, id) = m[i].v
       /\ LinesIn(render(<<[k |-> id, v |-> MapGet(r.cache, id)]>>), r.out)
       /\ r.sampOk = 1 => MapHas(sf.samples, id)

\* The cache a scrape renders keeps every detector of the cache it handed to
\* refreshMetrics.
C22_SupersetOfPrior ==
  \A s \in Scrapes : sc[s].pc = "done" => KeptBy(sc[s].prior, sc[s], samplesFile)

\* A scrape that loaded the document an earlier refresh wrote keeps every
\* detector of the cache that refresh returned.
C22_EarlierCacheKept ==
  \A s \in Scrapes :
    (sc[s].pc = "done" /\ sc[s].doc.by # 0) =>
      KeptBy(sc[s].doc.samples, sc[s], samplesFile)

(***************************************************************************)
(* C22. A refresh never removes a cached detector: the cache refreshMetrics *)
(* returns has every key of the prior cache, whatever the upstream calls    *)
(* came to, so that a detector no longer enumerated upstream keeps its last *)
(* entry and is rendered by every later scrape.                             *)
(***************************************************************************)
C22_NeverRemoves ==
  /\ C22_SupersetOfPrior
  /\ C22_EarlierCacheKept

\* A second scrape has refreshed from the document the first one wrote; the
\* devices it enumerated no longer include detector A, which it keeps
\* with the entry on file and renders.
C22_Witness ==
  \E s \in Scrapes :
    /\ Refreshed(s)
    /\ ~anyRejected(sc[s].res)
    /\ sc[s].doc.by \notin {0, s}
    /\ MapHas(sc[s].doc.samples, "A")
    /\ \A i \in 1..Len(sc[s].detectors) : sc[s].detectors[i].k # "A"
    /\ Overwritten(sc[s]) # {}
    /\ MapHas(sc[s].cache, "A")
    /\ MapGet(sc[s].cache, "A") = MapGet(sc[s].doc.samples, "A")
    /\ Len(render(<<[k |-> "A", v |-> MapGet(sc[s].cache, "A")]>>)) > 0
    /\ sc[s].sampOk = 1

====
